---- MODULE Spec2Model ----
(***************************************************************************)
(* Model of the MEXC autotrader bot (src/main.py, src/server.py).          *)
(*                                                                         *)
(* One update at a time is dispatched (Application built without           *)
(* concurrent_updates, main.py:339); pc is the position of the handler     *)
(* that is running, "idle" when none is.  Every trading-port call and      *)
(* every notification of the running handler is appended to calls / notes  *)
(* with its outcome; when the handler has returned (pc = "done") the       *)
(* dispatcher clears both logs and takes the next update.                  *)
(*                                                                         *)
(* Units: prices are integers (1 = 1 USDT); amounts are integers counted   *)
(* in quantity steps of the instrument (prec steps per base unit);         *)
(* percentages are integers in hundredths of a percent (30 = 0.30 %).      *)
(* Arithmetic is exact: binary floating-point rounding is not modelled.    *)
(***************************************************************************)
EXTENDS Integers, Sequences, FiniteSets, TLC

VARIABLES
    DRY_RUN,            \* main.py:6, global flag
    USE_STOP_LOSS,      \* main.py:2, configuration, fixed after start
    STOP_LOSS_PCT,      \* main.py:3, configuration, fixed after start
    seen_message_ids,   \* main.py:25, _seen_message_ids
    pc,                 \* position of the running handler
    sig,                \* the parsed signal of the running on_message
    mode,               \* branch taken at main.py:213 for the running signal
    prec,               \* quantity steps per base unit of the instrument
    qty,                \* place_entry_and_tps: qty (main.py:111)
    last,               \* place_entry_and_tps: last (main.py:116)
    calls,              \* trading-port calls of the running handler
    notes,              \* notifications attempted by the running handler
    exc,                \* exception caught at main.py:246 ("none" if none)
    escaped,            \* an exception left on_message
    lastToggle,         \* history: last accepted dry-run command
    startToggle,        \* history: lastToggle when the running signal started
    delivered,          \* history: the update last handed to a handler
    sim,                \* the dict returned by simulate_entry_and_tps
    command,            \* history: the command the last step handed to a cmd_ handler
    bundle,             \* exchange side: the take-profit 1 order last accepted
    ws_args,            \* within_slippage applied as a pure function: input
    ws_ret              \* ... and its result

vars == <<DRY_RUN, USE_STOP_LOSS, STOP_LOSS_PCT, seen_message_ids, pc, sig,
          mode, prec, qty, last, calls, notes, exc, escaped, lastToggle,
          startToggle, delivered, sim, command, bundle, ws_args, ws_ret>>

handlerVars == <<sig, mode, prec, qty, last, calls, notes, exc, escaped, sim>>
configVars == <<USE_STOP_LOSS, STOP_LOSS_PCT>>
wsVars == <<ws_args, ws_ret>>

----------------------------------------------------------------------------
(* Bounds of the model *)

MaxMsgId == 2
MaxWsPrice == 4

(* Program constants.  MARGIN_USDT and LEVERAGE are read at main.py:109;    *)
(* their values are the ones stated at main.py:104 and main.py:220.        *)

ALLOW_SLIPPAGE_PCT == 30
MARGIN_USDT == 50
LEVERAGE == 20
PctScale == 100
TP1_PCT == 20
TP2_PCT == 50
HugeQty == 1000000
None == -1

OWNER_USER_ID == "owner"
TELEGRAM_CHANNEL_ID == "channel"

(* Inputs *)

MsgIds == 1..MaxMsgId
Chats == {TELEGRAM_CHANNEL_ID, OWNER_USER_ID, "other"}
Users == {OWNER_USER_ID, "stranger", "nobody"}
EntryPrices == {0, 1000, 2000}
LastPrices == {0, 997, 1003, 1004}
PrecSteps == {1, 7, 10}
SignalTP1 == 1010
SignalTP2 == 1020
TP3Values == {None, 0, 1030}
StopLossPcts == {0, 1}
Markets == {"STX/USDT:USDT", "BTC/USDT:USDT"}

SignalTexts ==
    [marker : {TRUE}, complete : {TRUE}, symbol : {"STX/USDT"},
     side : {"LONG", "SHORT"}, entry : EntryPrices, tp3 : TP3Values]
    \cup [marker : {TRUE}, complete : {TRUE}, symbol : {"ZZZ/USDT"},
          side : {"LONG"}, entry : {1000}, tp3 : {None}]

OtherTexts ==
    [marker : BOOLEAN, complete : BOOLEAN, symbol : {"STX/USDT"},
     side : {"LONG"}, entry : {1000}, tp3 : {None}]
      \ [marker : {TRUE}, complete : {TRUE}, symbol : {"STX/USDT"},
         side : {"LONG"}, entry : {1000}, tp3 : {None}]

Texts == SignalTexts \cup OtherTexts

\* texts outside the channel: the non-signals and one signal
FewTexts ==
    OtherTexts \cup [marker : {TRUE}, complete : {TRUE}, symbol : {"STX/USDT"},
                     side : {"LONG"}, entry : {1000}, tp3 : {None}]

\* an update without a message, or a message in a chat with an id and a text
Updates ==
    [has_msg : {FALSE}, chat : {"other"}, id : {1}, text : {CHOOSE t \in OtherTexts : TRUE}]
    \cup [has_msg : {TRUE}, chat : {TELEGRAM_CHANNEL_ID}, id : MsgIds, text : Texts]
    \cup [has_msg : {TRUE}, chat : Chats \ {TELEGRAM_CHANNEL_ID}, id : MsgIds,
          text : FewTexts]

\* lines 340-345: a CommandHandler built without filters takes commands in
\* message and edited_message updates only, and those always carry their
\* sender; a command in a channel post (an update with no user) goes to the
\* MessageHandler of line 347, that is to on_message, as a text like any other
CommandSenders == Users \ {"nobody"}

\* the message that carries a command of the user, in the user's private chat
CommandUpdates(user) ==
    {u \in Updates :
        /\ u.has_msg
        /\ u.chat = (IF user = OWNER_USER_ID THEN OWNER_USER_ID ELSE "other")}

\* delivered: id of the message, whether the id had been seen before, and
\* what the text holds (marker token, all mandatory fields)
NoDelivery == [has_msg |-> FALSE, id |-> 0, dup |-> FALSE,
               marker |-> FALSE, complete |-> FALSE]

Delivery(has_msg, id, text) ==
    IF has_msg
    THEN [has_msg |-> TRUE, id |-> id, dup |-> id \in seen_message_ids,
          marker |-> text.marker, complete |-> text.complete]
    ELSE NoDelivery

\* command: its name, the user of the update, whether the owner guard let it
\* run, and the trading-port calls the cmd_ handler itself made
Command(name, user, ports) ==
    [name |-> name, user |-> user, ran |-> TRUE, ports |-> ports]

Refused(name, user) ==
    [name |-> name, user |-> user, ran |-> FALSE, ports |-> <<>>]

NoCommand == [name |-> "", user |-> "", ran |-> FALSE, ports |-> <<>>]

NoBundle == [state |-> "none", entry |-> 0]

NoSignal == [symbol |-> "", direction |-> "", entry |-> 0,
             tp1 |-> 0, tp2 |-> 0, tp3 |-> None]

----------------------------------------------------------------------------
(* Helpers *)

abs(x) == IF x < 0 THEN -x ELSE x

to_perp(symbol_txt) ==
    CASE symbol_txt = "STX/USDT" -> "STX/USDT:USDT"
      [] symbol_txt = "ZZZ/USDT" -> "ZZZ/USDT:USDT"
      [] OTHER -> "?/USDT:USDT"

\* amount = num/den quantity steps; amount_to_precision truncates to a step
round_amount(num, den) == num \div den

within_slippage_strict(entry, last_px, max_pct) ==
    IF entry <= 0 \/ last_px <= 0 THEN FALSE
    ELSE abs(last_px - entry) * 100 * PctScale < max_pct * entry

\* diff = abs(last-entry)/entry*100 ; diff <= max_pct  (max_pct in 1/PctScale %)
within_slippage(entry, last_px, max_pct) ==
    IF entry <= 0 \/ last_px <= 0 THEN FALSE
    ELSE abs(last_px - entry) * 100 * PctScale <= max_pct * entry

side_and_reduce_swapped(direction) ==
    IF direction = "LONG" THEN <<"sell", "buy">> ELSE <<"buy", "sell">>

side_and_reduce(direction) ==
    IF direction = "LONG" THEN <<"buy", "sell">> ELSE <<"sell", "buy">>

SIGNAL_RE_marker_only(text) == text.marker

\* SIGNAL_RE.search on the stripped text (lines 53-64, 194-195): the STRIKT
\* marker and, after it, symbol, side, Entry, TP1 and TP2, each closed by a
\* line break; text.tp3 is what the optional TP3 group captured
SIGNAL_RE_search(text) == text.marker /\ text.complete

\* qty_raw = MARGIN_USDT*LEVERAGE / max(entry, 1e-9), rounded to the step.
\* For entry = 0 the quotient is 1e12 base units; HugeQty stands for it.
sized_qty(entry, p) ==
    IF entry > 0 THEN round_amount(MARGIN_USDT * LEVERAGE * p, entry)
    ELSE HugeQty

\* tp_qty(frac) of the three legs: round_amount(qty * frac)
tp_qty(q, pct) == round_amount(q * pct, 100)
rest_share == IF 100 - TP1_PCT - TP2_PCT > 0 THEN 100 - TP1_PCT - TP2_PCT ELSE 0

\* a quantity in base units, kept as the exact quotient num/den
Rat(num, den) == [num |-> num, den |-> den]

NoSim == [entry_side |-> "", reduce_side |-> "", qty |-> Rat(0, 1),
          tp_qtys |-> <<Rat(0, 1), Rat(0, 1), Rat(0, 1)>>,
          tp_prices |-> <<None, None, None>>]

\* lines 161-162: qty = MARGIN_USDT*LEVERAGE / max(entry, 1e-9), not rounded
sim_qty(entry) ==
    IF entry > 0 THEN Rat(MARGIN_USDT * LEVERAGE, entry) ELSE Rat(HugeQty, 1)

\* lines 157-177
simulate_entry_and_tps(direction, entry, tp1, tp2, tp3) ==
    LET q == sim_qty(entry) IN
    [entry_side |-> IF direction = "LONG" THEN "buy" ELSE "sell",
     reduce_side |-> IF direction = "LONG" THEN "sell" ELSE "buy",
     qty |-> q,
     tp_qtys |-> <<Rat(q.num * 20, q.den * 100), Rat(q.num * 50, q.den * 100),
                   Rat(q.num * (100 - 70), q.den * 100)>>,
     tp_prices |-> <<tp1, tp2, IF tp3 # None THEN tp3 ELSE tp2>>]

stop_planned_flag_only == USE_STOP_LOSS

\* line 139: if USE_STOP_LOSS and STOP_LOSS_PCT > 0
stop_planned == USE_STOP_LOSS /\ STOP_LOSS_PCT > 0

----------------------------------------------------------------------------
(* Log records *)

PortCall(op, leg, ok) ==
    [op |-> op, leg |-> leg, type |-> "", side |-> "", amount |-> 0,
     price |-> None, reduceOnly |-> FALSE, ok |-> ok]

Order(leg, type, side, amount, price, reduceOnly, ok) ==
    [op |-> "create_order", leg |-> leg, type |-> type, side |-> side,
     amount |-> amount, price |-> price, reduceOnly |-> reduceOnly, ok |-> ok]

Note(via, kind, cause, ok) == [via |-> via, kind |-> kind, cause |-> cause, ok |-> ok]

MutatingOps == {"create_order", "cancel_order", "set_margin_mode", "set_leverage"}
SetupOps == {"set_margin_mode", "set_leverage"}
OrdersOf(cs) == SelectSeq(cs, LAMBDA c : c.op = "create_order")
SetupOf(cs) == SelectSeq(cs, LAMBDA c : c.op \in SetupOps)

----------------------------------------------------------------------------
(* Initial state: the module-level assignments of main.py *)

Init ==
    /\ DRY_RUN = TRUE
    /\ USE_STOP_LOSS \in BOOLEAN
    /\ STOP_LOSS_PCT \in StopLossPcts
    /\ seen_message_ids = {}
    /\ pc = "idle"
    /\ sig = NoSignal
    /\ mode = "none"
    /\ prec = 0
    /\ qty = 0
    /\ last = 0
    /\ calls = <<>>
    /\ notes = <<>>
    /\ exc = "none"
    /\ escaped = FALSE
    /\ lastToggle = "init"
    /\ startToggle = "init"
    /\ delivered = NoDelivery
    /\ sim = NoSim
    /\ command = NoCommand
    /\ bundle = NoBundle
    /\ ws_args = <<0, 0, 0>>
    /\ ws_ret = "unset"

----------------------------------------------------------------------------
(* on_message, main.py:180-250 *)

\* an exception reaches "except Exception as e" (main.py:246)
raise(cause) == pc' = "except" /\ exc' = cause

on_message_body_no_dedup(has_msg, chat, id, text) ==
    IF ~has_msg \/ chat \notin {TELEGRAM_CHANNEL_ID, OWNER_USER_ID}
    THEN UNCHANGED <<seen_message_ids, pc, handlerVars, startToggle>>
    ELSE /\ seen_message_ids' = seen_message_ids \cup {id}
         /\ IF ~SIGNAL_RE_search(text)
            THEN UNCHANGED <<pc, handlerVars, startToggle>>
            ELSE /\ sig' = [symbol |-> to_perp(text.symbol),
                            direction |-> text.side, entry |-> text.entry,
                            tp1 |-> SignalTP1, tp2 |-> SignalTP2,
                            tp3 |-> text.tp3]
                 /\ pc' = "load_markets"
                 /\ mode' = "none"
                 /\ prec' = 0
                 /\ qty' = 0
                 /\ last' = 0
                 /\ calls' = <<>>
                 /\ notes' = <<>>
                 /\ exc' = "none"
                 /\ escaped' = FALSE
                 /\ sim' = NoSim
                 /\ startToggle' = lastToggle

\* lines 181-207: filters, de-duplication, parsing
on_message_body(has_msg, chat, id, text) ==
    IF ~has_msg \/ chat \notin {TELEGRAM_CHANNEL_ID, OWNER_USER_ID}
                \/ id \in seen_message_ids
    THEN UNCHANGED <<seen_message_ids, pc, handlerVars, startToggle>>
    ELSE /\ seen_message_ids' = seen_message_ids \cup {id}
         /\ IF ~SIGNAL_RE_search(text)
            THEN UNCHANGED <<pc, handlerVars, startToggle>>
            ELSE /\ sig' = [symbol |-> to_perp(text.symbol),
                            direction |-> text.side, entry |-> text.entry,
                            tp1 |-> SignalTP1, tp2 |-> SignalTP2,
                            tp3 |-> text.tp3]
                 /\ pc' = "load_markets"
                 /\ mode' = "none"
                 /\ prec' = 0
                 /\ qty' = 0
                 /\ last' = 0
                 /\ calls' = <<>>
                 /\ notes' = <<>>
                 /\ exc' = "none"
                 /\ escaped' = FALSE
                 /\ sim' = NoSim
                 /\ startToggle' = lastToggle

on_message_any_time ==
    /\ \E u \in Updates :
          /\ on_message_body(u.has_msg, u.chat, u.id, u.text)
          /\ delivered' = Delivery(u.has_msg, u.id, u.text)
    /\ command' = NoCommand
    /\ UNCHANGED <<DRY_RUN, configVars, lastToggle, bundle, wsVars>>

\* dispatch of one update to on_message (MessageHandler, line 347)
on_message ==
    /\ pc = "idle"
    /\ \E u \in Updates :
          /\ on_message_body(u.has_msg, u.chat, u.id, u.text)
          /\ delivered' = Delivery(u.has_msg, u.id, u.text)
    /\ command' = NoCommand
    /\ UNCHANGED <<DRY_RUN, configVars, lastToggle, bundle, wsVars>>

run_mode_always_live(flag) == "live"

\* line 213: if DRY_RUN
run_mode(flag) == IF flag THEN "dry" ELSE "live"

load_markets_unchecked ==
    /\ pc = "load_markets"
    /\ \E ok \in BOOLEAN :
          /\ calls' = Append(calls, PortCall("load_markets", "", ok))
          /\ IF ~ok THEN raise("port") /\ UNCHANGED mode
             ELSE /\ mode' = run_mode(DRY_RUN)
                  /\ pc' = IF mode' = "dry" THEN "sim_reply" ELSE "size"
                  /\ UNCHANGED exc
    /\ command' = NoCommand
    /\ UNCHANGED <<DRY_RUN, configVars, seen_message_ids, sig, prec, qty, last,
                   notes, escaped, lastToggle, startToggle, delivered, sim,
                   bundle, wsVars>>

\* lines 209-213: load_markets, symbol check, branch on the flag
load_markets ==
    /\ pc = "load_markets"
    /\ \E ok \in BOOLEAN :
          /\ calls' = Append(calls, PortCall("load_markets", "", ok))
          /\ IF ~ok THEN raise("port") /\ UNCHANGED mode
             ELSE IF sig.symbol \notin Markets
                  THEN raise("symbol") /\ UNCHANGED mode
                  ELSE /\ mode' = run_mode(DRY_RUN)
                       /\ pc' = IF mode' = "dry" THEN "sim_reply" ELSE "size"
                       /\ UNCHANGED exc
    /\ command' = NoCommand
    /\ UNCHANGED <<DRY_RUN, configVars, seen_message_ids, sig, prec, qty, last,
                   notes, escaped, lastToggle, startToggle, delivered, sim,
                   bundle, wsVars>>

\* lines 214-225: simulate_entry_and_tps, msg.reply_html(conf)
sim_reply ==
    /\ pc = "sim_reply"
    /\ sim' = simulate_entry_and_tps(sig.direction, sig.entry, sig.tp1, sig.tp2,
                                     sig.tp3)
    /\ \E ok \in BOOLEAN :
          /\ notes' = Append(notes, Note("reply", "sim", "none", ok))
          /\ IF ok THEN pc' = "sim_dm" /\ UNCHANGED exc ELSE raise("notify")
    /\ command' = NoCommand
    /\ UNCHANGED <<DRY_RUN, configVars, seen_message_ids, sig, mode, prec, qty,
                   last, calls, escaped, lastToggle, startToggle, delivered,
                   bundle, wsVars>>

\* lines 226-227: dm_owner(conf); return
sim_dm ==
    /\ pc = "sim_dm"
    /\ \E ok \in BOOLEAN : notes' = Append(notes, Note("dm", "sim", "none", ok))
    /\ pc' = "done"
    /\ command' = NoCommand
    /\ UNCHANGED <<DRY_RUN, configVars, seen_message_ids, sig, mode, prec, qty,
                   last, calls, exc, escaped, lastToggle, startToggle,
                   delivered, sim, bundle, wsVars>>

----------------------------------------------------------------------------
(* place_entry_and_tps, main.py:100-155, run by on_message at lines 230-232 *)

liveFrame == <<DRY_RUN, configVars, seen_message_ids, sig, mode, notes,
               escaped, lastToggle, startToggle, delivered, sim, wsVars>>

\* lines 106-113: position size, "Menge zu klein" when it rounds to <= 0
size_position ==
    /\ pc = "size"
    /\ \E p \in PrecSteps :
          /\ prec' = p
          /\ qty' = sized_qty(sig.entry, p)
          /\ IF qty' <= 0 THEN raise("qty") ELSE pc' = "ticker" /\ UNCHANGED exc
    /\ command' = NoCommand
    /\ UNCHANGED <<liveFrame, bundle, last, calls>>

\* lines 116-118: get_last_price and the slippage check
check_slippage ==
    /\ pc = "ticker"
    /\ \E ok \in BOOLEAN, l \in LastPrices :
          /\ calls' = Append(calls, PortCall("fetch_ticker", "", ok))
          /\ IF ~ok THEN raise("port") /\ UNCHANGED last
             ELSE /\ last' = l
                  /\ IF within_slippage(sig.entry, l, ALLOW_SLIPPAGE_PCT)
                     THEN pc' = "setup" /\ UNCHANGED exc
                     ELSE raise("slippage")
    /\ command' = NoCommand
    /\ UNCHANGED <<liveFrame, bundle, prec, qty>>

\* set_isolated_and_leverage, line 85: set_margin_mode with leverage
set_margin_and_leverage ==
    /\ pc = "setup"
    /\ \E ok \in BOOLEAN :
          /\ calls' = Append(calls, PortCall("set_margin_mode", "with_leverage", ok))
          /\ pc' = IF ok THEN "entry" ELSE "setup_margin"
    /\ command' = NoCommand
    /\ UNCHANGED <<liveFrame, bundle, prec, qty, last, exc>>

set_margin_only_skip_leverage ==
    /\ pc = "setup_margin"
    /\ \E ok \in BOOLEAN :
          /\ calls' = Append(calls, PortCall("set_margin_mode", "mode_only", ok))
          /\ pc' = IF ok THEN "setup_lev" ELSE "entry"
    /\ command' = NoCommand
    /\ UNCHANGED <<liveFrame, bundle, prec, qty, last, exc>>

\* lines 87-90: set_margin_mode alone, failure swallowed
set_margin_only ==
    /\ pc = "setup_margin"
    /\ \E ok \in BOOLEAN :
          calls' = Append(calls, PortCall("set_margin_mode", "mode_only", ok))
    /\ pc' = "setup_lev"
    /\ command' = NoCommand
    /\ UNCHANGED <<liveFrame, bundle, prec, qty, last, exc>>

\* lines 91-94: set_leverage alone, failure swallowed
set_leverage_only ==
    /\ pc = "setup_lev"
    /\ \E ok \in BOOLEAN :
          calls' = Append(calls, PortCall("set_leverage", "", ok))
    /\ pc' = "entry"
    /\ command' = NoCommand
    /\ UNCHANGED <<liveFrame, bundle, prec, qty, last, exc>>

leg_after_tp2_first(leg) ==
    CASE leg = "entry" -> "tp2"
      [] leg = "tp2" -> "tp1"
      [] leg = "tp1" -> "tp3"
      [] leg = "tp3" -> IF stop_planned THEN "sl" ELSE "conf_reply"
      [] OTHER -> "conf_reply"

\* statement order of lines 124, 131, 132, 135, 139-147, 149
leg_after(leg) ==
    CASE leg = "entry" -> "tp1"
      [] leg = "tp1" -> "tp2"
      [] leg = "tp2" -> "tp3"
      [] leg = "tp3" -> IF stop_planned THEN "sl" ELSE "conf_reply"
      [] OTHER -> "conf_reply"

\* line 131: once create_order has returned, the reduce-only limit order for
\* take-profit 1 of the position entered at sig.entry rests on the exchange
resting(leg) ==
    IF leg = "tp1" THEN [state |-> "open", entry |-> sig.entry] ELSE bundle

\* one create_order call: returns, or raises out of place_entry_and_tps
submit(leg, order_ok, order_failed) ==
    /\ pc = leg
    /\ \/ /\ calls' = Append(calls, order_ok)
          /\ pc' = leg_after(leg)
          /\ bundle' = resting(leg)
          /\ UNCHANGED exc
       \/ calls' = Append(calls, order_failed) /\ raise("port") /\ UNCHANGED bundle
    /\ command' = NoCommand
    /\ UNCHANGED <<liveFrame, prec, qty, last>>

entry_order(ok) ==
    Order("entry", "market", side_and_reduce(sig.direction)[1], qty, None, FALSE, ok)

place_entry_ignore_failure ==
    /\ pc = "entry"
    /\ \E ok \in BOOLEAN : calls' = Append(calls, entry_order(ok))
    /\ pc' = leg_after("entry")
    /\ command' = NoCommand
    /\ UNCHANGED <<liveFrame, bundle, prec, qty, last, exc>>

\* line 124
place_entry == submit("entry", entry_order(TRUE), entry_order(FALSE))

tp_order(leg, pct, price, ok) ==
    Order(leg, "limit", side_and_reduce(sig.direction)[2], tp_qty(qty, pct),
          price, TRUE, ok)

\* line 131
place_tp1 == submit("tp1", tp_order("tp1", TP1_PCT, sig.tp1, TRUE),
                           tp_order("tp1", TP1_PCT, sig.tp1, FALSE))

\* line 132
place_tp2 == submit("tp2", tp_order("tp2", TP2_PCT, sig.tp2, TRUE),
                           tp_order("tp2", TP2_PCT, sig.tp2, FALSE))

\* line 134
last_tp_price == IF sig.tp3 # None THEN sig.tp3 ELSE sig.tp2

\* lines 133-135
place_tp3 == submit("tp3", tp_order("tp3", rest_share, last_tp_price, TRUE),
                           tp_order("tp3", rest_share, last_tp_price, FALSE))

\* lines 141, 145: round(entry * (1 -/+ STOP_LOSS_PCT/100), 8)
sl_price ==
    IF sig.direction = "LONG" THEN (sig.entry * (100 - STOP_LOSS_PCT)) \div 100
    ELSE (sig.entry * (100 + STOP_LOSS_PCT)) \div 100

sl_order(ok) ==
    Order("sl", "stop_market", IF sig.direction = "LONG" THEN "sell" ELSE "buy",
          qty, sl_price, TRUE, ok)

\* lines 139-147
place_sl == submit("sl", sl_order(TRUE), sl_order(FALSE))

----------------------------------------------------------------------------
(* on_message, lines 234-250: confirmation and the except block *)

noteFrame == <<DRY_RUN, configVars, seen_message_ids, sig, mode, prec, qty,
               last, calls, lastToggle, startToggle, delivered, sim,
               bundle, wsVars>>

\* line 243: msg.reply_html(conf), not guarded
conf_reply ==
    /\ pc = "conf_reply"
    /\ \E ok \in BOOLEAN :
          /\ notes' = Append(notes, Note("reply", "conf", "none", ok))
          /\ IF ok THEN pc' = "conf_dm" /\ UNCHANGED exc ELSE raise("notify")
    /\ command' = NoCommand
    /\ UNCHANGED <<noteFrame, escaped>>

\* line 244: dm_owner(conf)
conf_dm ==
    /\ pc = "conf_dm"
    /\ \E ok \in BOOLEAN : notes' = Append(notes, Note("dm", "conf", "none", ok))
    /\ pc' = "done"
    /\ command' = NoCommand
    /\ UNCHANGED <<noteFrame, exc, escaped>>

\* lines 247-249: log.exception, msg.reply_html(err), not guarded
except_reply ==
    /\ pc = "except"
    /\ \E ok \in BOOLEAN :
          /\ notes' = Append(notes, Note("reply", "err", exc, ok))
          /\ pc' = IF ok THEN "err_dm" ELSE "done"
          /\ escaped' = ~ok
    /\ command' = NoCommand
    /\ UNCHANGED <<noteFrame, exc>>

\* line 250: dm_owner(err)
except_dm ==
    /\ pc = "err_dm"
    /\ \E ok \in BOOLEAN : notes' = Append(notes, Note("dm", "err", exc, ok))
    /\ pc' = "done"
    /\ command' = NoCommand
    /\ UNCHANGED <<noteFrame, exc, escaped>>

\* on_message has returned (or its exception was logged by the dispatcher):
\* the dispatch loop of run_polling (line 350) takes the next update
handler_returns ==
    /\ pc = "done"
    /\ pc' = "idle"
    /\ sig' = NoSignal
    /\ mode' = "none"
    /\ prec' = 0
    /\ qty' = 0
    /\ last' = 0
    /\ calls' = <<>>
    /\ notes' = <<>>
    /\ exc' = "none"
    /\ escaped' = FALSE
    /\ sim' = NoSim
    /\ command' = NoCommand
    /\ UNCHANGED <<DRY_RUN, configVars, seen_message_ids, lastToggle,
                   startToggle, delivered, bundle, wsVars>>

----------------------------------------------------------------------------
(* Commands, main.py:278-290 *)

accepted_everyone(user) == TRUE

\* lines 254, 269, 280, 287, 293, 313: only an update with a user that is not
\* the owner is refused
accepted(user) == ~(user # "nobody" /\ user # OWNER_USER_ID)

cmdFrame == <<configVars, seen_message_ids, pc, handlerVars, startToggle,
              bundle, wsVars>>

\* lines 281-282, then the best-effort reply
cmd_dryrun_on ==
    /\ pc = "idle"
    /\ \E user \in CommandSenders :
          IF accepted(user)
          THEN /\ DRY_RUN' = TRUE
               /\ lastToggle' = "on"
               /\ command' = Command("dryrun_on", user, <<>>)
          ELSE /\ command' = Refused("dryrun_on", user)
               /\ UNCHANGED <<DRY_RUN, lastToggle>>
    /\ delivered' = NoDelivery
    /\ UNCHANGED cmdFrame

cmd_dryrun_off_local ==
    /\ pc = "idle"
    /\ \E user \in CommandSenders :
          IF accepted(user)
          THEN /\ lastToggle' = "off"
               /\ command' = Command("dryrun_off", user, <<>>)
               /\ UNCHANGED DRY_RUN
          ELSE /\ command' = Refused("dryrun_off", user)
               /\ UNCHANGED <<DRY_RUN, lastToggle>>
    /\ delivered' = NoDelivery
    /\ UNCHANGED cmdFrame

\* lines 288-289, then the best-effort reply
cmd_dryrun_off ==
    /\ pc = "idle"
    /\ \E user \in CommandSenders :
          IF accepted(user)
          THEN /\ DRY_RUN' = FALSE
               /\ lastToggle' = "off"
               /\ command' = Command("dryrun_off", user, <<>>)
          ELSE /\ command' = Refused("dryrun_off", user)
               /\ UNCHANGED <<DRY_RUN, lastToggle>>
    /\ delivered' = NoDelivery
    /\ UNCHANGED cmdFrame

\* lines 253-266: the guard, then a best-effort reply that shows the flag
cmd_start ==
    /\ pc = "idle"
    /\ \E user \in CommandSenders :
          command' = IF accepted(user) THEN Command("start", user, <<>>)
                     ELSE Refused("start", user)
    /\ delivered' = NoDelivery
    /\ UNCHANGED <<DRY_RUN, lastToggle, cmdFrame>>

\* load_markets, then fetch_ticker unless load_markets raised (lines 272-273,
\* 320-321); the exception is caught and answered with a reply
ticker_calls(symbol) ==
    { <<PortCall("load_markets", "", FALSE)>>,
      <<PortCall("load_markets", "", TRUE), PortCall("fetch_ticker", symbol, FALSE)>>,
      <<PortCall("load_markets", "", TRUE), PortCall("fetch_ticker", symbol, TRUE)>> }

\* lines 268-276
cmd_ping ==
    /\ pc = "idle"
    /\ \E user \in CommandSenders :
          IF accepted(user)
          THEN \E ports \in ticker_calls("BTC/USDT:USDT") :
                  command' = Command("ping", user, ports)
          ELSE command' = Refused("ping", user)
    /\ delivered' = NoDelivery
    /\ UNCHANGED <<DRY_RUN, lastToggle, cmdFrame>>

\* context.args of /ticker: none, or a spot symbol
TickerArgs == {"", "STX/USDT", "ZZZ/USDT"}

\* lines 312-325
cmd_ticker ==
    /\ pc = "idle"
    /\ \E user \in CommandSenders :
          IF accepted(user)
          THEN \E arg \in TickerArgs :
                  IF arg = ""
                  THEN command' = Command("ticker", user, <<>>)
                  ELSE \E ports \in ticker_calls(to_perp(arg)) :
                          command' = Command("ticker", user, ports)
          ELSE command' = Refused("ticker", user)
    /\ delivered' = NoDelivery
    /\ UNCHANGED <<DRY_RUN, lastToggle, cmdFrame>>

\* lines 292-310: the guard, then on_message on the command's own update
\* (line 309); the closing reply of line 310 is best effort and is sent when
\* on_message has returned
cmd_testsignal ==
    /\ pc = "idle"
    /\ \E user \in CommandSenders :
          IF accepted(user)
          THEN \E u \in CommandUpdates(user) :
                  /\ on_message_body(u.has_msg, u.chat, u.id, u.text)
                  /\ delivered' = Delivery(u.has_msg, u.id, u.text)
                  /\ command' = Command("testsignal", user, <<>>)
          ELSE /\ delivered' = NoDelivery
               /\ command' = Refused("testsignal", user)
               /\ UNCHANGED <<seen_message_ids, pc, handlerVars, startToggle>>
    /\ UNCHANGED <<DRY_RUN, configVars, lastToggle, bundle, wsVars>>

----------------------------------------------------------------------------
(* The exchange, on which the orders accepted at main.py:124-147 rest *)

\* the take-profit 1 order of the last accepted bundle is filled in full
exchange_fills_tp1 ==
    /\ bundle.state = "open"
    /\ bundle' = [bundle EXCEPT !.state = "tp1_filled"]
    /\ command' = NoCommand
    /\ UNCHANGED <<DRY_RUN, configVars, seen_message_ids, pc, handlerVars,
                   lastToggle, startToggle, delivered, wsVars>>

----------------------------------------------------------------------------

Next ==
    \/ on_message
    \/ load_markets
    \/ sim_reply
    \/ sim_dm
    \/ size_position
    \/ check_slippage
    \/ set_margin_and_leverage
    \/ set_margin_only
    \/ set_leverage_only
    \/ place_entry
    \/ place_tp1
    \/ place_tp2
    \/ place_tp3
    \/ place_sl
    \/ conf_reply
    \/ conf_dm
    \/ except_reply
    \/ except_dm
    \/ handler_returns
    \/ cmd_dryrun_on
    \/ cmd_dryrun_off
    \/ cmd_start
    \/ cmd_ping
    \/ cmd_ticker
    \/ cmd_testsignal
    \/ exchange_fills_tp1

Spec == Init /\ [][Next]_vars

\* run_polling (line 350) keeps taking updates and every awaited call of a
\* handler returns or raises: some step is always taken
SpecFair == Spec /\ WF_vars(Next)

----------------------------------------------------------------------------
(* within_slippage as a pure function over a grid of arguments *)

WsThresholds == {-1, 0, 30, 2500, 5000, 10000}

InitSlippage ==
    /\ DRY_RUN = TRUE
    /\ USE_STOP_LOSS = FALSE
    /\ STOP_LOSS_PCT = 0
    /\ seen_message_ids = {}
    /\ pc = "ws_call"
    /\ sig = NoSignal
    /\ mode = "none"
    /\ prec = 0
    /\ qty = 0
    /\ last = 0
    /\ calls = <<>>
    /\ notes = <<>>
    /\ exc = "none"
    /\ escaped = FALSE
    /\ lastToggle = "init"
    /\ startToggle = "init"
    /\ delivered = NoDelivery
    /\ sim = NoSim
    /\ command = NoCommand
    /\ bundle = NoBundle
    /\ ws_args \in (-1..MaxWsPrice) \X (-1..MaxWsPrice) \X WsThresholds
    /\ ws_ret = "unset"

apply_within_slippage ==
    /\ pc = "ws_call"
    /\ ws_ret' = IF within_slippage(ws_args[1], ws_args[2], ws_args[3])
                 THEN "accept" ELSE "reject"
    /\ pc' = "ws_done"
    /\ command' = NoCommand
    /\ UNCHANGED <<DRY_RUN, configVars, seen_message_ids, handlerVars,
                   lastToggle, startToggle, delivered, bundle, ws_args>>

NextSlippage == apply_within_slippage

SpecSlippage == InitSlippage /\ [][NextSlippage]_vars

----------------------------------------------------------------------------
(* Properties *)

IsMutating(c) == c.op \in MutatingOps
Failed(cs) == {i \in 1..Len(cs) : ~cs[i].ok}
ErrNotes(via) == {j \in 1..Len(notes) : notes[j].via = via /\ notes[j].kind = "err"}
PlannedLegs == <<"entry", "tp1", "tp2", "tp3", "sl">>

\* C1: every step taken while the dry-run flag is on leaves the mutating
\* trading-port calls (create_order, cancel, set_margin_mode, set_leverage)
\* as they were, and a signal handled in dry-run mode makes no port call but
\* load_markets and sends only the simulated plan (or an error report).
ThmC1_DryRunNeverMutates ==
    [][ /\ DRY_RUN =>
              \A i \in 1..Len(calls') :
                  IsMutating(calls'[i]) => i <= Len(calls) /\ calls[i] = calls'[i]
        /\ mode' = "dry" =>
              /\ \A i \in 1..Len(calls') : calls'[i].op = "load_markets"
              /\ \A j \in 1..Len(notes') : notes'[j].kind \in {"sim", "err"}
      ]_vars

WitC1_DryRunSimulated ==
    /\ DRY_RUN /\ mode = "dry" /\ pc = "done"
    /\ Len(calls) = 1
    /\ notes = <<Note("reply", "sim", "none", TRUE), Note("dm", "sim", "none", TRUE)>>

\* C2: the orders of one live signal are submitted in the order entry, TP1,
\* TP2, TP3, stop; each is submitted only after the previous one was
\* acknowledged; the legs carry the prices TP1, TP2 and TP3 (or TP2); a stop
\* follows the take-profits only when one is planned.
ThmC2_SubmissionOrder ==
    LET ord == OrdersOf(calls) IN
    /\ Len(ord) <= 5
    /\ \A i \in 1..Len(ord) :
          /\ i <= 5
          /\ ord[i].leg = PlannedLegs[i]
          /\ i < Len(ord) => ord[i].ok
    /\ Len(ord) >= 2 => ord[2].price = sig.tp1
    /\ Len(ord) >= 3 => ord[3].price = sig.tp2
    /\ Len(ord) >= 4 => ord[4].price = (IF sig.tp3 = None THEN sig.tp2 ELSE sig.tp3)
    /\ Len(ord) = 5 => stop_planned

WitC2_AllFiveSubmitted ==
    LET ord == OrdersOf(calls) IN
    Len(ord) = 5 /\ ord[5].ok /\ ord[5].leg = "sl" /\ pc = "done"

\* C3: when the entry order submission fails it is the last trading-port call
\* of that signal (no take-profit, no stop) and the failure is raised to
\* on_message, which handles it in its except block.
ThmC3_EntryFailureAborts ==
    \A i \in 1..Len(calls) :
        (calls[i].op = "create_order" /\ calls[i].leg = "entry" /\ ~calls[i].ok)
            => /\ i = Len(calls)
               /\ exc = "port"
               /\ pc \in {"except", "err_dm", "done"}

WitC3_EntryFailed ==
    /\ pc = "done" /\ Len(calls) >= 1
    /\ calls[Len(calls)].leg = "entry" /\ ~calls[Len(calls)].ok
    /\ ErrNotes("reply") # {}

\* C4 (as claimed): the three take-profit quantities sum to the entry
\* quantity and the third leg is the remainder qty - leg1 - leg2.
CexC4_LegsSumToQty ==
    LET ord == OrdersOf(calls) IN
    Len(ord) >= 4 =>
        /\ ord[2].amount + ord[3].amount + ord[4].amount = qty
        /\ ord[4].amount = qty - ord[2].amount - ord[3].amount

\* C5 (as claimed): when sizing fails in live mode no order and no
\* margin-mode or leverage call is made, and once the handler has returned
\* the operator has been sent the error.
CexC5_SizingFailureReported ==
    (mode = "live" /\ exc \in {"qty", "slippage"}) =>
        /\ \A i \in 1..Len(calls) : ~IsMutating(calls[i])
        /\ pc = "done" => ErrNotes("dm") # {}

\* C6: within_slippage accepts exactly the pairs with entry > 0, last > 0 and
\* entry*(1 - maxPct/100) <= last <= entry*(1 + maxPct/100): the bounds
\* themselves are accepted, anything beyond is rejected, a price <= 0 is
\* rejected for every threshold.
ThmC6_SlippageBand ==
    pc = "ws_done" =>
        LET e == ws_args[1]
            l == ws_args[2]
            m == ws_args[3]
        IN  (ws_ret = "accept") <=>
                /\ e > 0
                /\ l > 0
                /\ e * (10000 - m) <= l * 10000
                /\ l * 10000 <= e * (10000 + m)

WitC6_AtThreshold ==
    /\ pc = "ws_done" /\ ws_ret = "accept"
    /\ ws_args[2] # ws_args[1]
    /\ ws_args[2] * 10000 = ws_args[1] * (10000 + ws_args[3])

\* C7: the flag always holds what the last accepted dryrun_on / dryrun_off
\* command set (on initially), and the mode applied to a signal is the one
\* set by the last such command handled before the signal started.
ThmC7_ToggleTakesEffect ==
    /\ DRY_RUN = (lastToggle # "off")
    /\ mode # "none" => mode = (IF startToggle = "off" THEN "live" ELSE "dry")

WitC7_LiveAfterToggleOff ==
    /\ mode = "live" /\ startToggle = "off" /\ OrdersOf(calls) # <<>>

\* C8 (as claimed): when a take-profit or stop order fails after the entry
\* succeeded, nothing is cancelled or closed (the failed order is the last
\* port call) and what is sent is a partial-success report naming the
\* failed leg.
CexC8_PartialSuccessReported ==
    LET ord == OrdersOf(calls) IN
    (pc = "done" /\ Len(ord) >= 2 /\ ord[1].ok /\ ~ord[Len(ord)].ok) =>
        /\ \A i \in 1..Len(calls) : calls[i].op # "cancel_order"
        /\ calls[Len(calls)] = ord[Len(ord)]
        /\ \E j \in 1..Len(notes) :
              notes[j].kind = "partial" /\ notes[j].cause = ord[Len(ord)].leg

\* C9 (as claimed): when processing a signal failed, both the reply in the
\* channel and the direct message to the owner have been attempted by the
\* time the handler returns, whatever the outcome of the other.
CexC9_BothNotificationsAttempted ==
    (pc = "done" /\ exc # "none") =>
        ErrNotes("reply") # {} /\ ErrNotes("dm") # {}

\* C10: the setup calls of a signal are the combined call alone when it
\* succeeds, otherwise the combined call, the margin-mode-only call and the
\* leverage-only call in that order whatever the outcome of the last two;
\* no setup failure raises, and the entry order follows.
ThmC10_SetupBestEffort ==
    LET su == SetupOf(calls)
        entered == pc = "entry" \/ OrdersOf(calls) # <<>>
    IN
    /\ Len(su) <= 3
    /\ Len(su) >= 1 => su[1].op = "set_margin_mode" /\ su[1].leg = "with_leverage"
    /\ Len(su) >= 2 =>
          ~su[1].ok /\ su[2].op = "set_margin_mode" /\ su[2].leg = "mode_only"
    /\ Len(su) >= 3 => su[3].op = "set_leverage"
    /\ (Len(su) = 1 /\ su[1].ok) => entered
    /\ (Len(su) = 1 /\ ~su[1].ok) => pc = "setup_margin"
    /\ Len(su) = 2 => pc = "setup_lev"
    /\ Len(su) = 3 => entered
    /\ entered => (Len(su) = 1 /\ su[1].ok) \/ Len(su) = 3
    /\ pc \in {"setup_margin", "setup_lev", "entry"} => exc = "none"

WitC10_AllSetupFailedEntrySubmitted ==
    LET su == SetupOf(calls) IN
    /\ Len(su) = 3 /\ Failed(su) = {1, 2, 3}
    /\ OrdersOf(calls) # <<>>

\* C12: a message whose identifier was already recorded changes nothing when
\* it is delivered again: no trading-port call, no notification, no handler
\* started, the seen set and the flag as they were.
ThmC12_SeenIdIgnored ==
    [][ delivered'.dup =>
            UNCHANGED <<DRY_RUN, configVars, seen_message_ids, pc, handlerVars,
                        lastToggle, startToggle>>
      ]_vars

WitC12_DuplicateDelivered ==
    /\ delivered.dup /\ delivered.marker /\ delivered.complete
    /\ pc = "idle" /\ calls = <<>> /\ notes = <<>>

\* C13: delivering a message whose text lacks the marker or a mandatory field
\* makes no trading-port call, sends nothing, raises nothing, starts no
\* handler and leaves the dry-run flag as it was.
ThmC13_NonSignalSilent ==
    [][ (delivered'.has_msg /\ ~(delivered'.marker /\ delivered'.complete)) =>
            UNCHANGED <<DRY_RUN, pc, calls, notes, exc, escaped, mode, sig>>
      ]_vars

WitC13_IncompleteTextDropped ==
    /\ delivered.has_msg /\ delivered.marker /\ ~delivered.complete
    /\ ~delivered.dup /\ delivered.id \in seen_message_ids
    /\ pc = "idle" /\ calls = <<>> /\ notes = <<>> /\ exc = "none"

Executed ==
    LET ord == OrdersOf(calls) IN
    /\ mode = "live" /\ pc # "sl"
    /\ Len(ord) >= 4
    /\ \A i \in 1..4 : ord[i].ok

StopsOf(cs) == SelectSeq(cs, LAMBDA c : c.op = "create_order" /\ c.type = "stop_market")

\* C15 (as claimed): when every order of a live trade was accepted and the
\* confirmation reply then fails to deliver, no exception is raised, nothing
\* escapes the handler and no error report is sent.
CexC15_ConfirmationFailureSwallowed ==
    (Executed /\ \E j \in 1..Len(notes) :
                    notes[j].kind = "conf" /\ notes[j].via = "reply" /\ ~notes[j].ok)
        => /\ exc = "none"
           /\ ~escaped
           /\ ErrNotes("reply") = {} /\ ErrNotes("dm") = {}

\* C17: the first order of a live execution is a market order on the
\* signal's side (buy for LONG, sell for SHORT) for the full sized quantity
\* and not reduce-only; every later order is reduce-only and on the other
\* side.
ThmC17_EntryOpensOthersReduce ==
    LET ord == OrdersOf(calls)
        own == IF sig.direction = "LONG" THEN "buy" ELSE "sell"
        other == IF sig.direction = "LONG" THEN "sell" ELSE "buy"
    IN
    /\ Len(ord) >= 1 =>
          /\ ord[1].leg = "entry" /\ ord[1].type = "market"
          /\ ord[1].side = own
          /\ ord[1].amount = qty /\ qty = sized_qty(sig.entry, prec) /\ qty > 0
          /\ ~ord[1].reduceOnly
    /\ \A i \in 2..Len(ord) :
          /\ ord[i].reduceOnly
          /\ ord[i].side = other
          /\ ord[i].leg # "entry"

WitC17_ShortWithAllOrders ==
    LET ord == OrdersOf(calls) IN
    /\ sig.direction = "SHORT" /\ Len(ord) = 5
    /\ ord[1].side = "sell" /\ ord[5].side = "buy"

\* C18 (as claimed): with USE_STOP_LOSS off no stop order is submitted; with
\* it on, every executed signal has exactly one stop-market order,
\* reduce-only, on the opposite side, for the full entry quantity.
CexC18_StopIffFlag ==
    LET st == StopsOf(calls) IN
    /\ ~USE_STOP_LOSS => Len(st) = 0
    /\ (USE_STOP_LOSS /\ Executed) =>
          /\ Len(st) = 1
          /\ st[1].reduceOnly /\ st[1].amount = qty
          /\ st[1].side = (IF sig.direction = "LONG" THEN "sell" ELSE "buy")

\* C18 (amended): a stop order is submitted exactly when USE_STOP_LOSS is on
\* and STOP_LOSS_PCT > 0: otherwise none ever is; when both hold, a signal
\* whose entry and take-profit orders were all accepted has exactly one
\* stop-market order, reduce-only, on the opposite side, for the full entry
\* quantity.
ThmC18_StopIffFlagAndPct ==
    LET st == StopsOf(calls) IN
    /\ Len(st) <= 1
    /\ ~(USE_STOP_LOSS /\ STOP_LOSS_PCT > 0) => Len(st) = 0
    /\ (USE_STOP_LOSS /\ STOP_LOSS_PCT > 0 /\ Executed) =>
          /\ Len(st) = 1
          /\ st[1].reduceOnly /\ st[1].amount = qty
          /\ st[1].side = (IF sig.direction = "LONG" THEN "sell" ELSE "buy")
    /\ Len(st) = 1 => Len(OrdersOf(calls)) = 5 /\ OrdersOf(calls)[5] = st[1]

WitC18_OneStopSubmitted ==
    /\ USE_STOP_LOSS /\ STOP_LOSS_PCT > 0 /\ Executed
    /\ Len(StopsOf(calls)) = 1 /\ pc = "done"

\* C20: when load_markets fails, or the signal's perpetual symbol is not
\* among the loaded markets, then in either mode there is no order and no
\* margin or leverage call, nothing but error reports is sent, and by the
\* time the handler returns the error reply has been attempted.
ThmC20_UnknownInstrumentRejected ==
    LET loadFailed == Len(calls) >= 1 /\ calls[1].op = "load_markets" /\ ~calls[1].ok
        symbolMissing == sig # NoSignal /\ sig.symbol \notin Markets
    IN
    (loadFailed \/ symbolMissing) =>
        /\ Len(calls) <= 1
        /\ \A i \in 1..Len(calls) : ~IsMutating(calls[i])
        /\ \A j \in 1..Len(notes) : notes[j].kind = "err"
        /\ mode = "none"
        /\ pc \in {"load_markets", "except", "err_dm", "done"}
        /\ pc # "load_markets" => exc \in {"port", "symbol"}
        /\ pc \in {"err_dm", "done"} => ErrNotes("reply") # {}

WitC20_SymbolMissingLive ==
    /\ ~DRY_RUN /\ sig # NoSignal /\ sig.symbol \notin Markets
    /\ pc = "done" /\ exc = "symbol" /\ ErrNotes("dm") # {}

\* steps/p base units equal the quotient r
SameQuantity(r, steps, p) == steps * r.den = r.num * p

\* C16 (as claimed): what the simulation returns for a signal is what live
\* execution would submit for it on the instrument, whatever its quantity
\* step: the same sides, total quantity, three leg quantities and three
\* prices; and the signal is one that live execution can accept (its size
\* does not round to zero and its entry price can pass the slippage check).
CexC16_SimulationEqualsLivePlan ==
    (mode = "dry" /\ sim # NoSim) =>
        \A p \in PrecSteps :
            LET q == sized_qty(sig.entry, p) IN
            /\ sim.entry_side = side_and_reduce(sig.direction)[1]
            /\ sim.reduce_side = side_and_reduce(sig.direction)[2]
            /\ sim.tp_prices = <<sig.tp1, sig.tp2, last_tp_price>>
            /\ q > 0
            /\ within_slippage(sig.entry, sig.entry, ALLOW_SLIPPAGE_PCT)
            /\ SameQuantity(sim.qty, q, p)
            /\ SameQuantity(sim.tp_qtys[1], tp_qty(q, TP1_PCT), p)
            /\ SameQuantity(sim.tp_qtys[2], tp_qty(q, TP2_PCT), p)
            /\ SameQuantity(sim.tp_qtys[3], tp_qty(q, rest_share), p)

\* a reduce-only stop order at the entry price of the bundle is among the
\* trading-port calls
BreakEvenStopSubmitted ==
    \E i \in 1..Len(calls) :
        /\ calls[i].op = "create_order"
        /\ calls[i].type = "stop_market"
        /\ calls[i].reduceOnly
        /\ calls[i].price = bundle.entry

\* C11 (as claimed): once the take-profit 1 order of the open bundle is
\* filled in full, a reduce-only stop at the bundle's entry price is
\* eventually submitted.
CexC11_BreakEvenAfterTP1 ==
    (bundle.state = "tp1_filled") ~> BreakEvenStopSubmitted

====
